---- MODULE Spec2Model ----
(***************************************************************************)
(* Model of tap_linkedin_ads/streams/ad_analytics/ad_analytics_by_creative *)
(* .py: the four ad-analytics queries issued per creative, the positional  *)
(* merge of their record lists and the per-row post-processing.            *)
(*                                                                         *)
(* Python values are encoded homogeneously (tag, number, characters) so    *)
(* that an integer 5 and a string "5" are different, comparable values.    *)
(* Strings that the code parses or joins are sequences of tokens.          *)
(***************************************************************************)
EXTENDS Integers, Sequences, FiniteSets, TLC

VARIABLES
    config,      \* self.config: "start_date", "end_date" when present
    api,         \* the rows the upstream API may answer each query with
    contexts,    \* creative ids the parent stream hands over, in order
    cur,         \* position in contexts of the context get_records runs for
    pc,          \* "sync": between contexts, "records": inside get_records,
                 \* "raised": an exception left get_records
    error,       \* the exception raised, "none" before
    status,      \* per query: "new", "paging" or "exhausted"
    raw,         \* per query: the rows received so far, as received
    buf,         \* per query: the rows its get_records has yielded so far
    request,     \* the query and parameters of the last request sent
    fetchCalls,  \* requests sent for the current context
    out,         \* per context position: the list get_records returned
    ppRow,       \* post_process on its own: the row given
    ppRes        \* post_process on its own: the outcome

vars == <<config, api, contexts, cur, pc, error, status, raw, buf, request,
          fetchCalls, out, ppRow, ppRes>>

\* ------------------------------------------------------------ bounds
\* Longest record list one query returns (one row per page).
MaxRecords == 3
\* Most creatives (parent contexts) in one run.
MaxEntities == 2

\* ------------------------------------------------------------ Python values
PyNone == [t |-> "none", n |-> 0, s |-> <<>>]
PyInt(i) == [t |-> "int", n |-> i, s |-> <<>>]
PyStr(chars) == [t |-> "str", n |-> 0, s |-> chars]
PyBool(b) == [t |-> "bool", n |-> IF b THEN 1 ELSE 0, s |-> <<>>]

\* Python truth value of v, as tested by `if viral_registrations:`.
Truthy(v) ==
    CASE v.t = "none" -> FALSE
      [] v.t = "int"  -> v.n # 0
      [] v.t = "bool" -> v.n = 1
      [] v.t = "str"  -> v.s # <<>>

DigitVal ==
    [c \in {"0", "1", "2", "3", "4", "5", "6", "7", "8", "9"} |->
        CASE c = "0" -> 0 [] c = "1" -> 1 [] c = "2" -> 2 [] c = "3" -> 3
          [] c = "4" -> 4 [] c = "5" -> 5 [] c = "6" -> 6 [] c = "7" -> 7
          [] c = "8" -> 8 [] c = "9" -> 9]

IsDigit(c) == c \in DOMAIN DigitVal

AllDigits(chars) == \A i \in 1..Len(chars) : IsDigit(chars[i])

RECURSIVE DigitsValue(_)
DigitsValue(chars) ==
    IF chars = <<>> THEN 0
    ELSE 10 * DigitsValue(SubSeq(chars, 1, Len(chars) - 1))
         + DigitVal[chars[Len(chars)]]

RECURSIVE StripLeft(_)
StripLeft(chars) ==
    IF chars # <<>> /\ Head(chars) = " " THEN StripLeft(Tail(chars)) ELSE chars

RECURSIVE StripRight(_)
StripRight(chars) ==
    IF chars # <<>> /\ chars[Len(chars)] = " "
    THEN StripRight(SubSeq(chars, 1, Len(chars) - 1))
    ELSE chars

\* int(v): integers and booleans convert, a string is stripped and read as
\* an optionally signed decimal numeral, anything else raises.
PyIntOf(v) ==
    CASE v.t = "int"  -> [ok |-> TRUE, n |-> v.n]
      [] v.t = "bool" -> [ok |-> TRUE, n |-> v.n]
      [] v.t = "none" -> [ok |-> FALSE, n |-> 0]
      [] v.t = "str"  ->
            LET body == StripRight(StripLeft(v.s))
                signed == body # <<>> /\ Head(body) \in {"-", "+"}
                digits == IF signed THEN Tail(body) ELSE body
            IN  IF digits # <<>> /\ AllDigits(digits)
                THEN [ok |-> TRUE,
                      n |-> IF signed /\ Head(body) = "-"
                            THEN 0 - DigitsValue(digits)
                            ELSE DigitsValue(digits)]
                ELSE [ok |-> FALSE, n |-> 0]

\* ------------------------------------------------------------ rows (dicts)
VR == "viralRegistrations"

\* dict without key k (row.pop(k, None) leaves this behind).
Without(row, k) == [x \in (DOMAIN row) \ {k} |-> row[x]]

\* dict with row[k] = v set.
With(row, k, v) == [x \in (DOMAIN row) \cup {k} |-> IF x = k THEN v ELSE row[x]]

\* result.update(d)
Update(result, d) ==
    [x \in (DOMAIN result) \cup (DOMAIN d) |->
        IF x \in DOMAIN d THEN d[x] ELSE result[x]]

EmptyRow == [x \in {} |-> PyNone]

\* The parent class's post_process: returns the row it is given.
base_post_process(row) == [ok |-> TRUE, row |-> row]

post_process_KeepFalsy(row) ==
    LET viral_registrations == IF VR \in DOMAIN row THEN row[VR] ELSE PyNone
    IN  IF Truthy(viral_registrations)
        THEN LET i == PyIntOf(viral_registrations)
             IN  IF i.ok
                 THEN base_post_process(With(row, VR, PyInt(i.n)))
                 ELSE [ok |-> FALSE, row |-> EmptyRow]
        ELSE base_post_process(row)

\* _AdAnalyticsByCreativeInit.post_process
post_process(row) ==
    LET viral_registrations == IF VR \in DOMAIN row THEN row[VR] ELSE PyNone
        popped == Without(row, VR)
    IN  IF Truthy(viral_registrations)
        THEN LET i == PyIntOf(viral_registrations)
             IN  IF i.ok
                 THEN base_post_process(With(popped, VR, PyInt(i.n)))
                 ELSE [ok |-> FALSE, row |-> EmptyRow]
        ELSE base_post_process(popped)

\* AdAnalyticsBase.merge_dicts(*dict_args): later arguments overwrite.
RECURSIVE merge_dicts(_)
merge_dicts(dict_args) ==
    IF dict_args = <<>> THEN EmptyRow
    ELSE Update(merge_dicts(SubSeq(dict_args, 1, Len(dict_args) - 1)),
                dict_args[Len(dict_args)])

\* ------------------------------------------------------------ field groups
\* A field list is a sequence of tokens, "," being the separator token.
adanalyticscolumns_Wide ==
    << <<"clicks", ",", "videoMidpointCompletions", ",", "videoCompletions",
         ",", "dateRange">>,
       <<"costInUsd", ",", "landingPageClicks", ",", "totalEngagements",
         ",", "videoViews", ",", "commentLikes">>,
       <<"videoThirdQuartileCompletions", ",", "likes", ",", "oneClickLeads",
         ",", "fullScreenPlays", ",", "videoStarts", ",",
         "videoFirstQuartileCompletions", ",", "reactions", ",",
         "costInLocalCurrency", ",", "shares", ",", "follows", ",", "opens",
         ",", "sends", ",", "comments", ",", "viralClicks", ",",
         "viralLikes", ",", "viralShares", ",", "viralFollows", ",",
         "viralComments", ",", "viralReactions", ",", "viralImpressions",
         ",", "viralVideoViews">>,
       <<"impressions">> >>

\* _AdAnalyticsByCreativeInit.adanalyticscolumns
adanalyticscolumns ==
    << <<"clicks", ",", "videoMidpointCompletions", ",", "videoCompletions",
         ",", "dateRange">>,
       <<"costInUsd", ",", "landingPageClicks", ",", "totalEngagements",
         ",", "videoViews", ",", "commentLikes">>,
       <<"videoThirdQuartileCompletions", ",", "likes", ",", "oneClickLeads",
         ",", "fullScreenPlays", ",", "videoStarts", ",",
         "videoFirstQuartileCompletions", ",", "reactions", ",",
         "costInLocalCurrency">>,
       <<"impressions">> >>

\* ",".join(strings)
RECURSIVE JoinComma(_)
JoinComma(strings) ==
    IF strings = <<>> THEN <<>>
    ELSE IF Len(strings) = 1 THEN strings[1]
    ELSE strings[1] \o <<",">> \o JoinComma(Tail(strings))

\* The names a comma-separated field list holds: fields.split(",").
RECURSIVE SplitComma(_, _)
SplitComma(tokens, word) ==
    IF tokens = <<>> THEN << word >>
    ELSE IF Head(tokens) = "," THEN << word >> \o SplitComma(Tail(tokens), <<>>)
    ELSE SplitComma(Tail(tokens), word \o << Head(tokens) >>)

FieldNames(fields) == IF fields = <<>> THEN <<>> ELSE SplitComma(fields, <<>>)

\* The API's limit on the columns of one request (docstring of get_records).
FieldLimit == 20

\* ------------------------------------------------------------ dates
IsLeap(y) == (y % 4 = 0 /\ y % 100 # 0) \/ y % 400 = 0

DaysIn(y, m) ==
    CASE m \in {1, 3, 5, 7, 8, 10, 12} -> 31
      [] m \in {4, 6, 9, 11} -> 30
      [] m = 2 -> IF IsLeap(y) THEN 29 ELSE 28
      [] OTHER -> 0

NoDate == [ok |-> FALSE, year |-> 0, month |-> 0, day |-> 0]

\* pendulum.parse on the date strings of the model: YYYY-MM-DD naming a day
\* of the calendar parses, anything else raises ParserError.
pendulum_parse(chars) ==
    IF /\ Len(chars) = 10
       /\ chars[5] = "-" /\ chars[8] = "-"
       /\ AllDigits(SubSeq(chars, 1, 4))
       /\ AllDigits(SubSeq(chars, 6, 7))
       /\ AllDigits(SubSeq(chars, 9, 10))
    THEN LET y == DigitsValue(SubSeq(chars, 1, 4))
             m == DigitsValue(SubSeq(chars, 6, 7))
             d == DigitsValue(SubSeq(chars, 9, 10))
         IN  IF y >= 1 /\ m \in 1..12 /\ d \in 1..DaysIn(y, m)
             THEN [ok |-> TRUE, year |-> y, month |-> m, day |-> d]
             ELSE NoDate
    ELSE NoDate

\* ------------------------------------------------------------ query params
NoParams ==
    [pivot |-> "", timeGranularity |-> "", creatives |-> <<"", 0>>,
     start |-> NoDate, end |-> NoDate, fields |-> <<>>]

Raised(kind) == [ok |-> FALSE, error |-> kind, params |-> NoParams]

Init_get_unencoded_params_NoDates(cfg, context) ==
    [ok |-> TRUE, error |-> "none",
     params |->
        [pivot |-> "CREATIVE",
         timeGranularity |-> "DAILY",
         creatives |-> <<"urn:li:sponsoredCreative:", context.creative_id>>,
         start |-> NoDate,
         end |-> NoDate,
         fields |-> JoinComma(adanalyticscolumns)]]

\* _AdAnalyticsByCreativeInit.get_unencoded_params
Init_get_unencoded_params(cfg, context) ==
    IF "start_date" \notin DOMAIN cfg THEN Raised("KeyError")
    ELSE LET start_date == pendulum_parse(cfg["start_date"])
         IN  IF ~start_date.ok THEN Raised("ParserError")
             ELSE IF "end_date" \notin DOMAIN cfg THEN Raised("KeyError")
             ELSE LET end_date == pendulum_parse(cfg["end_date"])
                  IN  IF ~end_date.ok THEN Raised("ParserError")
                      ELSE [ok |-> TRUE, error |-> "none",
                            params |->
                               [pivot |-> "CREATIVE",
                                timeGranularity |-> "DAILY",
                                creatives |-> <<"urn:li:sponsoredCreative:",
                                                context.creative_id>>,
                                start |-> start_date,
                                end |-> end_date,
                                fields |-> JoinComma(adanalyticscolumns)]]

\* {**super().get_unencoded_params(context), "fields": columns}
OverwriteFields(base, columns) ==
    IF base.ok THEN [base EXCEPT !.params.fields = columns] ELSE base

\* AdAnalyticsByCreativeStream.get_unencoded_params: adanalyticscolumns[1]
Stream_get_unencoded_params(cfg, context) ==
    OverwriteFields(Init_get_unencoded_params(cfg, context), adanalyticscolumns[2])

\* _AdAnalyticsByCreativeSecond.get_unencoded_params: adanalyticscolumns[2]
Second_get_unencoded_params(cfg, context) ==
    OverwriteFields(Init_get_unencoded_params(cfg, context), adanalyticscolumns[3])

\* _AdAnalyticsByCreativeThird.get_unencoded_params: adanalyticscolumns[3]
Third_get_unencoded_params(cfg, context) ==
    OverwriteFields(Init_get_unencoded_params(cfg, context), adanalyticscolumns[4])

Groups == 1..4

get_unencoded_params_LateDates(k, cfg, context) ==
    CASE k = 1 -> Init_get_unencoded_params_NoDates(cfg, context)
      [] k = 2 -> Stream_get_unencoded_params(cfg, context)
      [] k = 3 -> Second_get_unencoded_params(cfg, context)
      [] k = 4 -> Third_get_unencoded_params(cfg, context)

\* The query of the k-th list handed to zip() in get_records: the Init
\* stream, this stream (super().get_records), the Second and the Third.
get_unencoded_params(k, cfg, context) ==
    CASE k = 1 -> Init_get_unencoded_params(cfg, context)
      [] k = 2 -> Stream_get_unencoded_params(cfg, context)
      [] k = 3 -> Second_get_unencoded_params(cfg, context)
      [] k = 4 -> Third_get_unencoded_params(cfg, context)

\* ------------------------------------------------------------ inputs
Date_2024_02_29 == <<"2", "0", "2", "4", "-", "0", "2", "-", "2", "9">>
Date_2023_02_29 == <<"2", "0", "2", "3", "-", "0", "2", "-", "2", "9">>
Date_2024_03_31 == <<"2", "0", "2", "4", "-", "0", "3", "-", "3", "1">>
Date_2024_13_01 == <<"2", "0", "2", "4", "-", "1", "3", "-", "0", "1">>
Date_garbage == <<"s", "o", "o", "n">>

\* The strings among them that name a day of the calendar.
CalendarDates == {Date_2024_02_29, Date_2024_03_31}

StartDates == {Date_2024_02_29, Date_2023_02_29, Date_garbage}
EndDates == {Date_2024_03_31, Date_2024_13_01}

Configs ==
    {EmptyRow}
    \cup {[k \in {"start_date"} |-> s] : s \in StartDates}
    \cup {[k \in {"end_date"} |-> e] : e \in EndDates}
    \cup {[k \in {"start_date", "end_date"} |->
              IF k = "start_date" THEN s ELSE e] : s \in StartDates, e \in EndDates}

CreativeIds == {101, 102, 103}

Row1(k, v) == [x \in {k} |-> v]
Row2(k1, v1, k2, v2) == [x \in {k1, k2} |-> IF x = k1 THEN v1 ELSE v2]

\* Rows of the API for the merge of one creative: colliding keys between the
\* first and the fourth query, viralRegistrations truthy, falsy and not a
\* number.
RichApi ==
    << {Row1("a", PyInt(1)), Row2("a", PyInt(1), VR, PyStr(<<"5">>))},
       {Row1("b", PyInt(2))},
       {Row1("c", PyInt(3)), Row2("c", PyInt(3), VR, PyStr(<<"x">>))},
       {Row1("a", PyInt(9)), Row1(VR, PyInt(0))} >>

\* Rows of the API for runs over several creatives.
LeanApi ==
    << {Row1("a", PyInt(1))}, {Row1("b", PyInt(2))},
       {Row1("c", PyInt(3))}, {Row1("a", PyInt(9))} >>

RECURSIVE Arrangements(_, _)
\* The sequences of n distinct members of S.
Arrangements(S, n) ==
    IF n = 0 THEN {<<>>}
    ELSE UNION {{Append(a, x) : x \in S \ {a[i] : i \in 1..Len(a)}} :
                a \in Arrangements(S, n - 1)}

NoRequest == [group |-> 0, params |-> NoParams]
NoResult == [done |-> FALSE, ok |-> FALSE, row |-> EmptyRow]
NoLists == [k \in Groups |-> <<>>]

\* ------------------------------------------------------------ state machine
Rest ==
    /\ cur = 0
    /\ pc = "sync"
    /\ error = "none"
    /\ status = [k \in Groups |-> "new"]
    /\ raw = NoLists
    /\ buf = NoLists
    /\ request = NoRequest
    /\ fetchCalls = 0
    /\ out = <<>>

\* One creative, any configuration, the rich API.
Init ==
    /\ config \in Configs
    /\ api = RichApi
    /\ contexts \in Arrangements(CreativeIds, 1)
    /\ ppRow = EmptyRow
    /\ ppRes = NoResult
    /\ Rest

\* Several creatives, any configuration, the lean API.
InitRun ==
    /\ config \in Configs
    /\ api = LeanApi
    /\ contexts \in UNION {Arrangements(CreativeIds, n) : n \in 1..MaxEntities}
    /\ ppRow = EmptyRow
    /\ ppRes = NoResult
    /\ Rest

Context == [creative_id |-> contexts[cur]]

MinLen(lists) ==
    CHOOSE n \in {Len(lists[k]) : k \in Groups} :
        \A k \in Groups : n <= Len(lists[k])

Present(lists, i) ==
    LET ks == SelectSeq(<<1, 2, 3, 4>>, LAMBDA k : i <= Len(lists[k]))
    IN  [j \in 1..Len(ks) |-> lists[ks[j]][i]]

ZippedLongest(lists) ==
    [i \in 1..(CHOOSE n \in {Len(lists[k]) : k \in Groups} :
                   \A k \in Groups : n >= Len(lists[k])) |->
        merge_dicts(Present(lists, i))]

ZippedReversed(lists) ==
    [i \in 1..MinLen(lists) |->
        merge_dicts(<<lists[4][i], lists[3][i], lists[2][i], lists[1][i]>>)]

\* [self.merge_dicts(x, y, z, p) for x, y, z, p in zip(...)]
Zipped(lists) ==
    [i \in 1..MinLen(lists) |->
        merge_dicts(<<lists[1][i], lists[2][i], lists[3][i], lists[4][i]>>)]

RunnableLockstep(k) == TRUE

\* list(...) of the k-th argument of zip() runs once the arguments before it
\* have been materialized.
Runnable(k) == \A j \in 1..(k - 1) : status[j] = "exhausted"

\* zip() is called with all four lists built.
CanMerge == \A k \in Groups : status[k] = "exhausted"

RaisePartial(kind) ==
    /\ pc' = "raised"
    /\ error' = kind
    /\ out' = [i \in (DOMAIN out) \cup {cur} |->
                  IF i = cur
                  THEN [j \in 1..Len(buf[4]) |->
                           merge_dicts(<<buf[1][j], buf[2][j], buf[3][j], buf[4][j]>>)]
                  ELSE out[i]]

RaiseSwallowed(kind) ==
    /\ pc' = "sync"
    /\ error' = kind
    /\ UNCHANGED out

\* An exception leaves get_records, which has no handler: nothing is returned.
Raise(kind) ==
    /\ pc' = "raised"
    /\ error' = kind
    /\ UNCHANGED out

YieldedRaw(row) == [ok |-> TRUE, row |-> row]

\* What a stream's get_records yields for a row received: the row after the
\* stream's post_process.
Yielded(row) == post_process(row)

\* get_records is entered for the next context and builds its three streams.
StartEntity ==
    /\ pc = "sync"
    /\ cur < Len(contexts)
    /\ cur' = cur + 1
    /\ pc' = "records"
    /\ status' = [k \in Groups |-> "new"]
    /\ raw' = NoLists
    /\ buf' = NoLists
    /\ request' = NoRequest
    /\ fetchCalls' = 0
    /\ UNCHANGED <<config, api, contexts, error, out, ppRow, ppRes>>

Fetching(k) ==
    /\ pc = "records"
    /\ status[k] # "exhausted"
    /\ Runnable(k)

Sent(k) ==
    /\ request' = [group |-> k,
                   params |-> get_unencoded_params(k, config, Context).params]
    /\ fetchCalls' = fetchCalls + 1

\* The parameters of the k-th query's next request cannot be built.
ParamsFail(k) ==
    /\ Fetching(k)
    /\ ~get_unencoded_params(k, config, Context).ok
    /\ Raise(get_unencoded_params(k, config, Context).error)
    /\ UNCHANGED <<config, api, contexts, cur, status, raw, buf, request,
                   fetchCalls, ppRow, ppRes>>

\* The k-th query's next request is sent and fails.
FetchFail(k) ==
    /\ Fetching(k)
    /\ get_unencoded_params(k, config, Context).ok
    /\ Sent(k)
    /\ Raise("FetchError")
    /\ UNCHANGED <<config, api, contexts, cur, status, raw, buf, ppRow, ppRes>>

\* The k-th query's next request is sent and answered with a page of one
\* row; the stream's get_records post-processes the row and yields it.
FetchRow(k) ==
    /\ Fetching(k)
    /\ get_unencoded_params(k, config, Context).ok
    /\ Len(raw[k]) < MaxRecords
    /\ \E row \in api[k], more \in BOOLEAN :
          /\ more => Len(raw[k]) + 1 < MaxRecords
          /\ Sent(k)
          /\ LET r == Yielded(row)
             IN  IF r.ok
                 THEN /\ raw' = [raw EXCEPT ![k] = Append(@, row)]
                      /\ buf' = [buf EXCEPT ![k] = Append(@, r.row)]
                      /\ status' = [status EXCEPT
                                      ![k] = IF more THEN "paging" ELSE "exhausted"]
                      /\ UNCHANGED <<pc, error, out>>
                 ELSE /\ Raise("ValueError")
                      /\ UNCHANGED <<status, raw, buf>>
    /\ UNCHANGED <<config, api, contexts, cur, ppRow, ppRes>>

\* The k-th query's first request is sent and answered with no row.
FetchEmpty(k) ==
    /\ Fetching(k)
    /\ get_unencoded_params(k, config, Context).ok
    /\ status[k] = "new"
    /\ Sent(k)
    /\ status' = [status EXCEPT ![k] = "exhausted"]
    /\ UNCHANGED <<config, api, contexts, cur, pc, error, raw, buf, out,
                   ppRow, ppRes>>

\* The four lists are zipped and merged, and the list is returned.
Merge ==
    /\ pc = "records"
    /\ CanMerge
    /\ out' = [i \in (DOMAIN out) \cup {cur} |->
                  IF i = cur THEN Zipped(buf) ELSE out[i]]
    /\ pc' = "sync"
    /\ UNCHANGED <<config, api, contexts, cur, error, status, raw, buf,
                   request, fetchCalls, ppRow, ppRes>>

Next ==
    \/ StartEntity
    \/ \E k \in Groups : ParamsFail(k)
    \/ \E k \in Groups : FetchFail(k)
    \/ \E k \in Groups : FetchRow(k)
    \/ \E k \in Groups : FetchEmpty(k)
    \/ Merge

Spec == Init /\ [][Next]_vars

SpecRun == InitRun /\ [][Next]_vars

\* ------------------------------------------------------------ post_process alone
PostProcessValues ==
    {PyNone, PyInt(0), PyInt(1), PyInt(5), PyInt(0 - 3), PyBool(TRUE), PyBool(FALSE),
     PyStr(<<>>), PyStr(<<"5">>), PyStr(<<"0">>), PyStr(<<"-", "3">>),
     PyStr(<<" ", "1", "2", " ">>), PyStr(<<"a">>), PyStr(<<"5", ".", "5">>),
     PyStr(<<"+">>), PyStr(<<" ">>)}

PostProcessRows ==
    {r \in UNION {[d -> PostProcessValues] : d \in SUBSET {VR, "x", "clicks"}} :
        /\ "x" \in DOMAIN r => r["x"] \in {PyInt(1), PyStr(<<"5">>)}
        /\ "clicks" \in DOMAIN r => r["clicks"] = PyInt(0)}

InitPostProcess ==
    /\ config = EmptyRow
    /\ api = LeanApi
    /\ contexts = <<>>
    /\ ppRow \in PostProcessRows
    /\ ppRes = NoResult
    /\ Rest

\* post_process(row) is called on the row.
ApplyPostProcess ==
    /\ ~ppRes.done
    /\ ppRes' = [done |-> TRUE, ok |-> post_process(ppRow).ok,
                 row |-> post_process(ppRow).row]
    /\ UNCHANGED <<config, api, contexts, cur, pc, error, status, raw, buf,
                   request, fetchCalls, out, ppRow>>

NextPostProcess == ApplyPostProcess

SpecPostProcess == InitPostProcess /\ [][NextPostProcess]_vars

\* ------------------------------------------------------------ claims
\* get_records has returned its list for the current context.
Returned == pc = "sync" /\ cur \in DOMAIN out

\* C1: the fields parameter of the query built for a group holds exactly the
\* names of that group, for each of the four queries, the first included.
C1_FieldsOfGroupAlone ==
    request.group \in Groups =>
        FieldNames(request.params.fields)
            = FieldNames(adanalyticscolumns[request.group])

\* C2: the i-th merged record is the key-wise union of the rows at position
\* i of the four lists, a shared key taking the value of the last list that
\* holds it.
C2_UnionLastWins ==
    Returned =>
        \A i \in 1..Len(out[cur]) :
            /\ DOMAIN out[cur][i] = UNION {DOMAIN buf[k][i] : k \in Groups}
            /\ \A x \in DOMAIN out[cur][i] :
                  \E k \in Groups :
                     /\ x \in DOMAIN buf[k][i]
                     /\ \A j \in (k + 1)..4 : x \notin DOMAIN buf[j][i]
                     /\ out[cur][i][x] = buf[k][i][x]

C2_Witness ==
    /\ Returned
    /\ buf = << <<Row1("a", PyInt(1))>>, <<Row1("b", PyInt(2))>>,
                <<Row1("c", PyInt(3))>>, <<Row1("a", PyInt(9))>> >>
    /\ out[cur] = << [x \in {"a", "b", "c"} |->
                        CASE x = "a" -> PyInt(9)
                          [] x = "b" -> PyInt(2)
                          [] x = "c" -> PyInt(3)] >>

\* C3: the merge returns as many records as the shortest of the four lists
\* holds; lists of different lengths raise nothing and the rows beyond the
\* shortest length are left out.
C3_TruncatesToShortest ==
    Returned =>
        /\ error = "none"
        /\ \A k \in Groups : Len(out[cur]) <= Len(buf[k])
        /\ \E k \in Groups : Len(out[cur]) = Len(buf[k])

C3_Witness ==
    /\ Returned
    /\ Len(buf[1]) = 3 /\ Len(buf[2]) = 3 /\ Len(buf[3]) = 2 /\ Len(buf[4]) = 3
    /\ Len(out[cur]) = 2

\* C4: once a request of any of the four queries has failed, get_records
\* has returned no record for the context.
C4_NoPartialEmission ==
    error = "FetchError" => cur \notin DOMAIN out

C4_Witness ==
    /\ error = "FetchError"
    /\ request.group = 4
    /\ \A k \in Groups : Len(buf[k]) >= 1
    /\ cur \notin DOMAIN out

\* C5 as claimed: after a fetch failure for one context, every other context
\* of the run has its merged records emitted.
C5_OtherEntitiesEmitted ==
    error = "FetchError" =>
        \A i \in 1..Len(contexts) : i # cur => i \in DOMAIN out

\* C5 as amended: a fetch failure leaves get_records as an exception and ends
\* the run; the contexts before the failed one keep their output and no
\* context after it is processed.
C5_FailureEndsRun ==
    error = "FetchError" =>
        /\ pc = "raised"
        /\ DOMAIN out = 1..(cur - 1)
        /\ ~ENABLED Next

C5_Witness ==
    /\ error = "FetchError"
    /\ Len(contexts) = 2
    /\ cur = 1
    /\ out = <<>>

\* The configuration lacks a date or holds one that names no calendar day.
BadConfig ==
    \/ "start_date" \notin DOMAIN config
    \/ "end_date" \notin DOMAIN config
    \/ config["start_date"] \notin CalendarDates
    \/ config["end_date"] \notin CalendarDates

\* C6: with start_date or end_date missing or unparseable, building the
\* parameters of any of the four queries fails, and no request has been sent
\* for the context when the failure is raised.
C6_ConfigErrorBeforeAnyRequest ==
    BadConfig =>
        /\ fetchCalls = 0
        /\ request = NoRequest
        /\ cur \in 1..Len(contexts) =>
              \A k \in Groups : ~get_unencoded_params(k, config, Context).ok
        /\ pc = "raised" => error \in {"KeyError", "ParserError"}

C6_Witness ==
    /\ pc = "raised"
    /\ error = "ParserError"
    /\ "start_date" \in DOMAIN config
    /\ config["start_date"] = Date_2023_02_29
    /\ fetchCalls = 0

\* The integer Python's int() gives for the values post_process is tried on.
ExpectedInt ==
    {<<PyInt(1), 1>>, <<PyInt(5), 5>>, <<PyInt(0 - 3), 0 - 3>>,
     <<PyBool(TRUE), 1>>, <<PyStr(<<"5">>), 5>>, <<PyStr(<<"0">>), 0>>,
     <<PyStr(<<"-", "3">>), 0 - 3>>, <<PyStr(<<" ", "1", "2", " ">>), 12>>}

FalsyValues == {PyNone, PyInt(0), PyBool(FALSE), PyStr(<<>>)}

NonNumericValues ==
    {PyStr(<<"a">>), PyStr(<<"5", ".", "5">>), PyStr(<<"+">>), PyStr(<<" ">>)}

OtherKeysKept(before, after) ==
    /\ (DOMAIN after) \ {VR} = (DOMAIN before) \ {VR}
    /\ \A x \in (DOMAIN before) \ {VR} : after[x] = before[x]

\* C7: post_process returns a row without viralRegistrations as it is, holds
\* a truthy viralRegistrations as an integer, drops a falsy one, keeps every
\* other key, and raises on a truthy value that is no number.
C7_PostProcess ==
    ppRes.done =>
        IF VR \notin DOMAIN ppRow
        THEN ppRes.ok /\ ppRes.row = ppRow
        ELSE IF ppRow[VR] \in FalsyValues
        THEN /\ ppRes.ok
             /\ VR \notin DOMAIN ppRes.row
             /\ OtherKeysKept(ppRow, ppRes.row)
        ELSE IF ppRow[VR] \in NonNumericValues
        THEN ~ppRes.ok
        ELSE /\ ppRes.ok
             /\ VR \in DOMAIN ppRes.row
             /\ <<ppRow[VR], ppRes.row[VR].n>> \in ExpectedInt
             /\ ppRes.row[VR] = PyInt(ppRes.row[VR].n)
             /\ OtherKeysKept(ppRow, ppRes.row)

C7_Witness ==
    /\ ppRes.done
    /\ ppRow = Row2(VR, PyStr(<<"5">>), "x", PyInt(1))
    /\ ppRes.ok
    /\ ppRes.row = Row2(VR, PyInt(5), "x", PyInt(1))

\* C8: every request sent names at most 20 fields, and no group of the
\* partition holds more than 20 names.
C8_FieldLimit ==
    /\ request.group \in Groups =>
          Len(FieldNames(request.params.fields)) <= FieldLimit
    /\ \A g \in Groups : Len(FieldNames(adanalyticscolumns[g])) <= FieldLimit

C8_Witness ==
    /\ request.group = 1
    /\ fetchCalls = 2
    /\ Len(FieldNames(request.params.fields)) = 18

\* C9 as claimed: each returned record is post_process of the merge of the
\* four rows received at its position.
C9_PostProcessAfterMerge ==
    Returned =>
        \A i \in 1..Len(out[cur]) :
            LET merged == merge_dicts(<<raw[1][i], raw[2][i], raw[3][i], raw[4][i]>>)
            IN  /\ post_process(merged).ok
                /\ out[cur][i] = post_process(merged).row

\* C9 as amended: each returned record is the merge of the four rows
\* received at its position, each post-processed on its own before merging.
C9_PostProcessBeforeMerge ==
    Returned =>
        /\ \A k \in Groups : Len(out[cur]) <= Len(raw[k])
        /\ \A i \in 1..Len(out[cur]) :
              /\ \A k \in Groups : post_process(raw[k][i]).ok
              /\ out[cur][i] =
                    merge_dicts(<<post_process(raw[1][i]).row,
                                  post_process(raw[2][i]).row,
                                  post_process(raw[3][i]).row,
                                  post_process(raw[4][i]).row>>)

C9_Witness ==
    /\ Returned
    /\ Len(out[cur]) = 1
    /\ raw[1][1] = Row2("a", PyInt(1), VR, PyStr(<<"5">>))
    /\ raw[4][1] = Row1(VR, PyInt(0))
    /\ out[cur][1][VR] = PyInt(5)

\* C10: a query sends a request only when the queries before it are
\* exhausted and the queries after it have sent none, and a list is returned
\* only with all four queries exhausted.
C10_SequentialMaterialized ==
    /\ \A k \in Groups :
          (status[k] # "new" \/ request.group = k) =>
              \A j \in 1..(k - 1) : status[j] = "exhausted"
    /\ \A k \in Groups :
          status[k] # "exhausted" =>
              \A j \in (k + 1)..4 :
                  status[j] = "new" /\ raw[j] = <<>> /\ request.group # j
    /\ Cardinality({k \in Groups : status[k] = "paging"}) <= 1
    /\ Returned => \A k \in Groups : status[k] = "exhausted"

C10_Witness ==
    /\ pc = "records"
    /\ request.group = 4
    /\ status[4] = "paging"
    /\ \A k \in 1..3 : status[k] = "exhausted" /\ Len(buf[k]) >= 2

====
